---- MODULE Spec2Model ----
(***************************************************************************)
(* tag-genie (src/main.py): the three commands process / audit / clean.    *)
(*                                                                         *)
(* Strings are sequences of tokens; the token WS is one whitespace         *)
(* character and every other token is a run of non-whitespace text, so     *)
(* str.strip() is a computation on the sequence.  Floats are integers in   *)
(* hundredths (0.85 is 85); NaN is a separate value for which every        *)
(* comparison is false, as in IEEE arithmetic.                             *)
(***************************************************************************)
EXTENDS Integers, Sequences, FiniteSets, TLC

VARIABLES
    row,                      \* the row the csv reader yielded last
    n,                        \* number of rows yielded so far
    eof,                      \* the reader is exhausted
    total,                    \* audit: counters of line 131
    agreements,
    high_conf_agreements,
    high_conf_disagreements,
    low_conf,
    danger_rows,              \* audit: line 132, entries abstracted to the row number
    auditPc,                  \* audit: "reading" | "reported" | "fault"
    stats,                    \* clean: line 206
    written,                  \* clean: the row handed to writer.writerow last
    cleanPc,                  \* clean: "reading" | "reported" | "fault"
    procArg,                  \* process: "ok" | "no_file" | "no_column" (lines 83-88)
    infile,                   \* process: the data rows of the input file
    rows,                     \* process: rows = list(reader), line 93
    pos,                      \* process: number of rows the loop has finished
    out,                      \* process: the data rows of the output file
    procPc,                   \* process: "start" | "loop" | "done" | "exit"
    cache,                    \* lru_cache of get_classifier: holds the pipeline or not
    loadAttempts,             \* calls of pipeline(...) started
    loads,                    \* calls of pipeline(...) that returned a model
    classifierCalls,          \* calls of classifier(text, full_tag_list)
    errorLog                  \* rows for which line 109 printed "Error processing row"

auditVars == <<total, agreements, high_conf_agreements, high_conf_disagreements,
               low_conf, danger_rows, auditPc>>
cleanVars == <<stats, written, cleanPc>>
readerVars == <<row, n, eof>>
procVars == <<procArg, infile, rows, pos, out, procPc, cache, loadAttempts, loads,
              classifierCalls, errorLog>>
vars == <<row, n, eof, total, agreements, high_conf_agreements,
          high_conf_disagreements, low_conf, danger_rows, auditPc,
          stats, written, cleanPc,
          procArg, infile, rows, pos, out, procPc, cache, loadAttempts, loads,
          classifierCalls, errorLog>>

(***************************************************************************)
(* Bounds                                                                  *)
(***************************************************************************)
MaxRows == 2
MaxProcRows == 3

(***************************************************************************)
(* Strings                                                                 *)
(***************************************************************************)
WS == " "

RECURSIVE LStrip(_)
LStrip(s) == IF s # <<>> /\ Head(s) = WS THEN LStrip(Tail(s)) ELSE s

RECURSIVE RStrip(_)
RStrip(s) ==
    IF s # <<>> /\ s[Len(s)] = WS THEN RStrip(SubSeq(s, 1, Len(s) - 1)) ELSE s

Strip(s) == RStrip(LStrip(s))

(***************************************************************************)
(* Shared constants and mappings, lines 26-44                              *)
(***************************************************************************)
NONE_TAG == <<"None of the above">>
LegalLong == <<"Legal Services and Immigration Consultants">>
FinanceLong == <<"Chartered Accountants and Tax Consultants">>
RelocationLong == <<"Relocation Services and Lifestyle Management">>
RealEstateLong == <<"Real Estate Agency and Property Rentals">>

TAG_MAP ==
    (LegalLong :> <<"Legal & Immigration">>) @@
    (FinanceLong :> <<"Finance & Tax">>) @@
    (RelocationLong :> <<"Relocation & Lifestyle">>) @@
    (RealEstateLong :> <<"Real Estate">>) @@
    (NONE_TAG :> <<"None">>)

SHORT_TAG_MAP ==
    (LegalLong :> <<"Legal">>) @@
    (FinanceLong :> <<"Finance">>) @@
    (RelocationLong :> <<"Lifestyle">>) @@
    (RealEstateLong :> <<"Real Estate">>) @@
    (NONE_TAG :> <<"None">>)

\* dict.get(key, default)
DictGet(d, key, default) == IF key \in DOMAIN d THEN d[key] ELSE default

\* dict.get(key): the result is None when the key is absent
DictHas(d, key) == key \in DOMAIN d

(***************************************************************************)
(* Floats: float(x) and str(x) of the csv writer                           *)
(***************************************************************************)
NaN == -1

FloatLiteral ==
    ("0.0" :> 0) @@ ("0.49" :> 49) @@ ("0.5" :> 50) @@ ("0.8" :> 80) @@
    ("0.85" :> 85) @@ ("0.86" :> 86) @@ ("0.9" :> 90) @@ ("1.0" :> 100) @@
    ("nan" :> NaN)

\* float(s) for a string: surrounding whitespace is ignored, anything that
\* is not a literal raises ValueError
FloatOk(s) == Len(Strip(s)) = 1 /\ Strip(s)[1] \in DOMAIN FloatLiteral
FloatVal(s) == FloatLiteral[Strip(s)[1]]

\* str(f) as csv.DictWriter writes a float cell
FloatStr(f) == <<CHOOSE t \in DOMAIN FloatLiteral : FloatLiteral[t] = f>>

Gt(a, b) == a # NaN /\ b # NaN /\ a > b
Lt(a, b) == a # NaN /\ b # NaN /\ a < b
Le(a, b) == a # NaN /\ b # NaN /\ a <= b

(***************************************************************************)
(* Row parsing shared by audit (139-146) and clean (219-226)               *)
(***************************************************************************)
RowGet(r, col, default) == IF col \in DOMAIN r THEN r[col] ELSE default

\* variant: the category is compared and written without str.strip()
OriginalUnstripped(r) == RowGet(r, "Category", <<>>)


Original(r) == Strip(RowGet(r, "Category", <<>>))
PredictedLong(r) == Strip(RowGet(r, "Predicted_Tag", <<>>))

\* try: float(row.get('Confidence_Score', 0.0)) except (ValueError, TypeError): 0.0
Confidence(r) ==
    IF "Confidence_Score" \notin DOMAIN r THEN 0
    ELSE IF FloatOk(r["Confidence_Score"]) THEN FloatVal(r["Confidence_Score"])
    ELSE 0

PredictedShort(r) == DictGet(TAG_MAP, PredictedLong(r), PredictedLong(r))

(***************************************************************************)
(* audit, lines 127-193                                                    *)
(***************************************************************************)

HIGH_CONF == 80
LOW_CONF == 50

IsMatch(r) == Original(r) = PredictedShort(r)

\* lines 149-152
HighConfAgreement(r) == IsMatch(r) /\ Gt(Confidence(r), HIGH_CONF)

\* variant: the danger zone starts at a stricter threshold than the auto-fix
HighConfDisagreementStrict(r) == ~IsMatch(r) /\ Gt(Confidence(r), 90)

\* lines 153-155
HighConfDisagreement(r) == ~IsMatch(r) /\ Gt(Confidence(r), HIGH_CONF)

\* variant: the low-confidence test nested in the else branch of line 153
AuditLowConfInElse(r) == ~IsMatch(r) /\ Lt(Confidence(r), LOW_CONF)

\* lines 162-163
AuditLowConf(r) == Lt(Confidence(r), LOW_CONF)

Bump(c) == IF c THEN 1 ELSE 0

\* one iteration of the loop of line 137 on the row the reader yielded
AuditRow ==
    /\ auditPc = "reading"
    /\ total < n
    /\ total' = total + 1
    /\ agreements' = agreements + Bump(IsMatch(row))
    /\ high_conf_agreements' = high_conf_agreements + Bump(HighConfAgreement(row))
    /\ high_conf_disagreements' =
           high_conf_disagreements + Bump(HighConfDisagreement(row))
    /\ danger_rows' = IF HighConfDisagreement(row)
                      THEN Append(danger_rows, n) ELSE danger_rows
    /\ low_conf' = low_conf + Bump(AuditLowConf(row))
    /\ UNCHANGED <<auditPc, cleanVars, readerVars, procVars>>

\* lines 165-189: the percentages divide by total (ZeroDivisionError is not caught)
AuditReport ==
    /\ auditPc = "reading"
    /\ eof
    /\ total = n
    /\ auditPc' = IF total = 0 THEN "fault" ELSE "reported"
    /\ UNCHANGED <<total, agreements, high_conf_agreements, high_conf_disagreements,
                   low_conf, danger_rows, cleanVars, readerVars, procVars>>

(***************************************************************************)
(* clean, lines 201-262                                                    *)
(***************************************************************************)
AUTO_FIX_CONF == 85

AUTO_FIXED == <<"AUTO_FIXED">>
VERIFIED == <<"VERIFIED">>
NEEDS_REVIEW == <<"NEEDS_REVIEW">>

\* variant: ">=" for ">" in line 228
AutoFixCandidateGe(r) ==
    /\ Confidence(r) # NaN
    /\ Confidence(r) >= AUTO_FIX_CONF
    /\ Original(r) # PredictedShort(r)

\* line 228
AutoFixCandidate(r) ==
    Gt(Confidence(r), AUTO_FIX_CONF) /\ Original(r) # PredictedShort(r)

\* variant: line 230 without the test against "None"
FinalTagUsableAnyMapped(r) ==
    /\ DictHas(SHORT_TAG_MAP, PredictedLong(r))
    /\ SHORT_TAG_MAP[PredictedLong(r)] # <<>>

\* lines 229-230: final_tag = SHORT_TAG_MAP.get(predicted_long);
\* "if final_tag and final_tag != 'None'" (None and '' are falsy)
FinalTagUsable(r) ==
    /\ DictHas(SHORT_TAG_MAP, PredictedLong(r))
    /\ SHORT_TAG_MAP[PredictedLong(r)] # <<>>
    /\ SHORT_TAG_MAP[PredictedLong(r)] # <<"None">>

\* lines 228-245: the branch taken
AuditStatus(r) ==
    IF AutoFixCandidate(r)
    THEN (IF FinalTagUsable(r) THEN AUTO_FIXED ELSE VERIFIED)
    ELSE IF Lt(Confidence(r), LOW_CONF) THEN NEEDS_REVIEW
    ELSE VERIFIED

\* variant: line 235 assigns the looked-up tag instead of the original
FinalTagFromLookup(r) ==
    IF AutoFixCandidate(r) THEN DictGet(SHORT_TAG_MAP, PredictedLong(r), <<>>)
    ELSE Original(r)

\* lines 231, 235, 239, 243
FinalTag(r) ==
    IF AuditStatus(r) = AUTO_FIXED THEN SHORT_TAG_MAP[PredictedLong(r)]
    ELSE Original(r)

\* variant: "if" for "elif" in line 238, so a low-confidence row falls
\* through to the default branch as well
StatsAfterFallThrough(s, r) ==
    [total |-> s.total + 1,
     auto_fixed |-> s.auto_fixed + Bump(AuditStatus(r) = AUTO_FIXED),
     verified |-> s.verified + Bump(AuditStatus(r) # AUTO_FIXED),
     low_conf |-> s.low_conf + Bump(AuditStatus(r) = NEEDS_REVIEW)]

\* lines 233, 237, 241, 245 with line 218
StatsAfter(s, r) ==
    [total |-> s.total + 1,
     auto_fixed |-> s.auto_fixed + Bump(AuditStatus(r) = AUTO_FIXED),
     verified |-> s.verified + Bump(AuditStatus(r) = VERIFIED),
     low_conf |-> s.low_conf + Bump(AuditStatus(r) = NEEDS_REVIEW)]

\* one iteration of the loop of line 217, writer.writerow(row) included
CleanRow ==
    /\ cleanPc = "reading"
    /\ stats.total < n
    /\ stats' = StatsAfter(stats, row)
    /\ written' = ("Final_Tag" :> FinalTag(row)) @@
                  ("Audit_Status" :> AuditStatus(row)) @@ row
    /\ UNCHANGED <<cleanPc, auditVars, readerVars, procVars>>

\* lines 248-258: the percentages divide by stats['total']
CleanReport ==
    /\ cleanPc = "reading"
    /\ eof
    /\ stats.total = n
    /\ cleanPc' = IF stats.total = 0 THEN "fault" ELSE "reported"
    /\ UNCHANGED <<stats, written, auditVars, readerVars, procVars>>

(***************************************************************************)
(* The file given to audit and to clean.  Both commands stream the same    *)
(* file through csv.DictReader; row is its n-th data row, and a command    *)
(* has consumed it when its own row counter has reached n.                 *)
(***************************************************************************)
Categories ==
    {<<"Real Estate">>, <<WS, "Real Estate", WS>>, <<"Legal & Immigration">>,
     <<"None">>, <<>>}

PredictedTags ==
    {LegalLong, <<LegalLong[1], WS>>, NONE_TAG, <<"ERROR">>,
     <<"Pet Grooming">>, <<"Real Estate">>}

ConfidenceCells ==
    {<<"0.49">>, <<"0.5">>, <<"0.8">>, <<"0.85">>, <<"0.86">>,
     <<"1.0">>, <<WS, "0.9">>, <<"nan">>, <<"high">>, <<>>}

FullRows ==
    {[Category |-> c, Predicted_Tag |-> p, Confidence_Score |-> s] :
        c \in Categories, p \in PredictedTags, s \in ConfidenceCells}

\* files whose header lacks one of the columns
ShortHeaderRows ==
    {[Predicted_Tag |-> LegalLong, Confidence_Score |-> <<"1.0">>],
     [Category |-> <<"Real Estate">>, Confidence_Score |-> <<"1.0">>],
     [Category |-> <<"Real Estate">>, Predicted_Tag |-> LegalLong]}

FileRows == FullRows \cup ShortHeaderRows

ReadRow ==
    /\ ~eof
    /\ n < MaxRows
    /\ total = n
    /\ stats.total = n
    /\ row' \in FileRows
    /\ n' = n + 1
    /\ UNCHANGED <<eof, auditVars, cleanVars, procVars>>

EndOfFile ==
    /\ ~eof
    /\ total = n
    /\ stats.total = n
    /\ eof' = TRUE
    /\ UNCHANGED <<row, n, auditVars, cleanVars, procVars>>

InitAudit ==
    /\ total = 0
    /\ agreements = 0
    /\ high_conf_agreements = 0
    /\ high_conf_disagreements = 0
    /\ low_conf = 0
    /\ danger_rows = <<>>
    /\ auditPc = "reading"

InitClean ==
    /\ stats = [auto_fixed |-> 0, verified |-> 0, low_conf |-> 0, total |-> 0]
    /\ written = <<>>
    /\ cleanPc = "reading"

InitReader ==
    /\ row = <<>>
    /\ n = 0
    /\ eof = FALSE

InitProcIdle ==
    /\ procArg = "no_file"
    /\ infile = <<>>
    /\ rows = <<>>
    /\ pos = 0
    /\ out = <<>>
    /\ procPc = "exit"
    /\ cache = FALSE
    /\ loadAttempts = 0
    /\ loads = 0
    /\ classifierCalls = 0
    /\ errorLog = {}

Init == InitReader /\ InitAudit /\ InitClean /\ InitProcIdle

Next == ReadRow \/ EndOfFile \/ AuditRow \/ AuditReport \/ CleanRow \/ CleanReport

Spec == Init /\ [][Next]_vars

(***************************************************************************)
(* process, lines 50-120                                                   *)
(***************************************************************************)
\* the COLUMN argument and the --tags option after line 80
Column == "Description"
CandidateTags == <<LegalLong, <<"Pet Grooming">>>>

\* line 63
FullTagList == CandidateTags \o <<NONE_TAG>>

\* scores the classifier may attach to its top label
Scores == {49, 90}

\* lines 58-59: text = text.strip(); if not text
IsBlank(text) == Strip(text) = <<>>

\* lines 106-107 and 110-111 followed by writer.writerow(row) of line 113
OutRow(r, tag, score) ==
    ("Predicted_Tag" :> tag) @@ ("Confidence_Score" :> score) @@ r

\* lines 82-98: open the input, check the column, read all rows, open the output
ProcessStart ==
    /\ procPc = "start"
    /\ IF procArg = "ok"
       THEN /\ rows' = infile
            /\ procPc' = "loop"
       ELSE /\ rows' = rows
            /\ procPc' = "exit"
    /\ UNCHANGED <<procArg, infile, pos, out, cache, loadAttempts, loads,
                   classifierCalls, errorLog, auditVars, cleanVars, readerVars>>

\* loop body on a blank text: run_classification returns at line 60
ProcessRowBlank ==
    /\ procPc = "loop"
    /\ pos < Len(rows)
    /\ IsBlank(rows[pos + 1][Column])
    /\ out' = Append(out, OutRow(rows[pos + 1], NONE_TAG, FloatStr(100)))
    /\ pos' = pos + 1
    /\ UNCHANGED <<procArg, infile, rows, procPc, cache, loadAttempts, loads,
                   classifierCalls, errorLog, auditVars, cleanVars, readerVars>>

\* variant: get_classifier without the lru_cache decorator
NeedsLoadAlways == TRUE

\* get_classifier, lines 50-54: lru_cache returns the cached pipeline, or
\* calls pipeline(...) and caches its result; an exception is not cached
NeedsLoad == ~cache

\* loop body when pipeline(...) raises inside get_classifier
ProcessRowLoadFails ==
    /\ procPc = "loop"
    /\ pos < Len(rows)
    /\ ~IsBlank(rows[pos + 1][Column])
    /\ NeedsLoad
    /\ loadAttempts' = loadAttempts + 1
    /\ errorLog' = errorLog \cup {pos + 1}
    /\ out' = Append(out, OutRow(rows[pos + 1], <<"ERROR">>, <<"0.0">>))
    /\ pos' = pos + 1
    /\ UNCHANGED <<procArg, infile, rows, procPc, cache, loads, classifierCalls,
                   auditVars, cleanVars, readerVars>>

\* the effect of line 62 when it returns
GetClassifier ==
    /\ cache' = TRUE
    /\ loadAttempts' = loadAttempts + Bump(NeedsLoad)
    /\ loads' = loads + Bump(NeedsLoad)

\* variant: no try/except around line 105, the exception ends the command
ProcessRowClassifierFailsAborts ==
    /\ procPc = "loop"
    /\ pos < Len(rows)
    /\ ~IsBlank(rows[pos + 1][Column])
    /\ GetClassifier
    /\ classifierCalls' = classifierCalls + 1
    /\ procPc' = "done"
    /\ UNCHANGED <<procArg, infile, rows, pos, out, errorLog,
                   auditVars, cleanVars, readerVars>>

\* loop body when classifier(...) of line 64 raises (or its result is malformed)
ProcessRowClassifierFails ==
    /\ procPc = "loop"
    /\ pos < Len(rows)
    /\ ~IsBlank(rows[pos + 1][Column])
    /\ GetClassifier
    /\ classifierCalls' = classifierCalls + 1
    /\ errorLog' = errorLog \cup {pos + 1}
    /\ out' = Append(out, OutRow(rows[pos + 1], <<"ERROR">>, <<"0.0">>))
    /\ pos' = pos + 1
    /\ UNCHANGED <<procArg, infile, rows, procPc, auditVars, cleanVars, readerVars>>

\* loop body when the classifier returns its ranking
ProcessRowClassified ==
    /\ procPc = "loop"
    /\ pos < Len(rows)
    /\ ~IsBlank(rows[pos + 1][Column])
    /\ GetClassifier
    /\ classifierCalls' = classifierCalls + 1
    /\ \E i \in 1..Len(FullTagList), sc \in Scores :
           out' = Append(out, OutRow(rows[pos + 1], FullTagList[i], FloatStr(sc)))
    /\ pos' = pos + 1
    /\ UNCHANGED <<procArg, infile, rows, procPc, errorLog,
                   auditVars, cleanVars, readerVars>>

\* line 116: the loop is over and the output file is closed
ProcessDone ==
    /\ procPc = "loop"
    /\ pos = Len(rows)
    /\ procPc' = "done"
    /\ UNCHANGED <<procArg, infile, rows, pos, out, cache, loadAttempts, loads,
                   classifierCalls, errorLog, auditVars, cleanVars, readerVars>>

\* clean run on the file process wrote: the reader yields its next row
ReadProcessed ==
    /\ procPc = "done"
    /\ ~eof
    /\ stats.total = n
    /\ n < Len(out)
    /\ row' = out[n + 1]
    /\ n' = n + 1
    /\ UNCHANGED <<eof, auditVars, cleanVars, procVars>>

EndOfProcessed ==
    /\ procPc = "done"
    /\ ~eof
    /\ stats.total = n
    /\ n = Len(out)
    /\ eof' = TRUE
    /\ UNCHANGED <<row, n, auditVars, cleanVars, procVars>>

TextCells == {<<>>, <<WS>>, <<WS, "visa lawyers">>}
ProcCategories == {<<"None">>, <<WS, "ERROR">>}

InputRows == {[Category |-> c, Description |-> t] : c \in ProcCategories, t \in TextCells}

RECURSIVE SeqsUpTo(_, _)
SeqsUpTo(S, k) ==
    IF k = 0 THEN {<<>>}
    ELSE LET shorter == SeqsUpTo(S, k - 1)
         IN shorter \cup {Append(q, e) : q \in shorter, e \in S}

InitProcess ==
    /\ procArg \in {"ok", "no_file", "no_column"}
    /\ infile \in SeqsUpTo(InputRows, MaxProcRows)
    /\ rows = <<>>
    /\ pos = 0
    /\ out = <<>>
    /\ procPc = "start"
    /\ cache = FALSE
    /\ loadAttempts = 0
    /\ loads = 0
    /\ classifierCalls = 0
    /\ errorLog = {}

InitPipeline == InitProcess /\ InitReader /\ InitAudit /\ InitClean

NextPipeline ==
    \/ ProcessStart
    \/ ProcessRowBlank
    \/ ProcessRowLoadFails
    \/ ProcessRowClassifierFails
    \/ ProcessRowClassified
    \/ ProcessDone
    \/ ReadProcessed
    \/ EndOfProcessed
    \/ CleanRow
    \/ CleanReport

SpecPipeline == InitPipeline /\ [][NextPipeline]_vars

(***************************************************************************)
(* Properties                                                              *)
(***************************************************************************)
\* clean has written the row the reader yielded last
Cleaned == n > 0 /\ stats.total = n

\* audit and clean have both consumed the row the reader yielded last
BothConsumed == n > 0 /\ stats.total = n /\ total = n

Status == written["Audit_Status"]
Final == written["Final_Tag"]
RawCategory == RowGet(row, "Category", <<>>)
Mismatch == Original(row) # PredictedShort(row)
Unmapped == PredictedLong(row) \notin DOMAIN SHORT_TAG_MAP
Sentinel == PredictedLong(row) = NONE_TAG

\* C1: a row whose confidence is <= 0.85 (0.0 for a malformed value), or
\* whose original category equals the mapped prediction, is never AUTO_FIXED.
C1_NoAutoFixBelowThresholdOrOnMatch ==
    Cleaned =>
        ((Le(Confidence(row), 85) \/ Confidence(row) = NaN \/ ~Mismatch)
            => Status # AUTO_FIXED)

\* a mismatching, mapped prediction at exactly 0.85 is kept as VERIFIED
C1_Witness ==
    /\ Cleaned
    /\ Confidence(row) = 85
    /\ Mismatch
    /\ PredictedLong(row) = LegalLong
    /\ Status = VERIFIED

C3_OneStatusPerRow ==
    [][stats' # stats =>
          /\ stats'.total = stats.total + 1
          /\ written'["Audit_Status"] \in {AUTO_FIXED, VERIFIED, NEEDS_REVIEW}
          /\ (stats'.auto_fixed - stats.auto_fixed)
               + (stats'.verified - stats.verified)
               + (stats'.low_conf - stats.low_conf) = 1
          /\ stats'.auto_fixed - stats.auto_fixed =
                 Bump(written'["Audit_Status"] = AUTO_FIXED)
          /\ stats'.verified - stats.verified =
                 Bump(written'["Audit_Status"] = VERIFIED)
          /\ stats'.low_conf - stats.low_conf =
                 Bump(written'["Audit_Status"] = NEEDS_REVIEW)
          /\ stats'.auto_fixed + stats'.verified + stats'.low_conf = stats'.total]_vars

\* two rows cleaned, with different statuses
C3_Witness ==
    /\ stats.total = 2
    /\ stats.low_conf = 1
    /\ stats.auto_fixed = 1
    /\ Cleaned
    /\ Status = NEEDS_REVIEW

\* C4 as stated: a row that is not AUTO_FIXED has Final_Tag equal to the
\* Category cell of the input, byte for byte, surrounding whitespace included.
C4_FinalTagIsRawCategory ==
    (Cleaned /\ Status # AUTO_FIXED) => Final = RawCategory

\* C4, amended: a row that is not AUTO_FIXED has Final_Tag equal to the
\* Category cell with its leading and trailing whitespace removed (the empty
\* string when the cell is empty or the column is absent).
C4_FinalTagIsStrippedCategory ==
    (Cleaned /\ Status # AUTO_FIXED) =>
        /\ Final = RStrip(LStrip(RawCategory))
        /\ ("Category" \notin DOMAIN row => Final = <<>>)

\* a kept row whose Category cell has surrounding whitespace
C4_Witness ==
    /\ Cleaned
    /\ Status = NEEDS_REVIEW
    /\ RawCategory = <<WS, "Real Estate", WS>>
    /\ Final = <<"Real Estate">>

\* C5: audit on a file without data rows finishes its report instead of
\* faulting on a division by zero.
C5_ZeroRowAuditReports ==
    (eof /\ n = 0 /\ auditPc # "reading") => auditPc = "reported"

\* C6: after every audited row agreements <= total, high_conf_agreements <=
\* agreements, high_conf_disagreements <= total - agreements, low_conf <=
\* total; low_conf is incremented exactly for the rows with confidence < 0.5,
\* matched or not, and such a row enters no high-confidence bucket.
C6_AuditBuckets ==
    [][total' # total =>
          /\ total' = total + 1
          /\ agreements' - agreements \in {0, 1}
          /\ agreements' <= total'
          /\ high_conf_agreements' <= agreements'
          /\ high_conf_disagreements' <= total' - agreements'
          /\ low_conf' <= total'
          /\ (low_conf' = low_conf + 1) <=> Lt(Confidence(row), 50)
          /\ low_conf' \in {low_conf, low_conf + 1}
          /\ ~(/\ low_conf' = low_conf + 1
               /\ \/ high_conf_agreements' # high_conf_agreements
                  \/ high_conf_disagreements' # high_conf_disagreements)]_vars

\* a matching and a mismatching row, both of low confidence
C6_Witness ==
    /\ total = 2
    /\ agreements = 1
    /\ low_conf = 2
    /\ high_conf_agreements = 0
    /\ high_conf_disagreements = 0

\* C7: with a valid input file and column the output has one row per input
\* row in the input order, whichever classifications raise; a failed row is
\* written with "ERROR" and "0.0", and the rows after it are still written.
C7_OneOutputRowPerInputRow ==
    /\ procPc \in {"loop", "done"} =>
           /\ procArg = "ok"
           /\ Len(out) = pos
           /\ \A i \in 1..Len(out) :
                  /\ \A c \in DOMAIN infile[i] : out[i][c] = infile[i][c]
                  /\ DOMAIN out[i] =
                         DOMAIN infile[i] \cup {"Predicted_Tag", "Confidence_Score"}
                  /\ i \in errorLog =>
                         /\ out[i]["Predicted_Tag"] = <<"ERROR">>
                         /\ out[i]["Confidence_Score"] = <<"0.0">>
    /\ procPc = "done" => Len(out) = Len(infile)
    /\ (procArg = "ok" /\ procPc # "start") => procPc \in {"loop", "done"}

\* the first row failed and the rows after it were classified and written
C7_Witness ==
    /\ procPc = "done"
    /\ Len(out) = 3
    /\ errorLog = {1}
    /\ out[2]["Predicted_Tag"] = LegalLong
    /\ out[3]["Predicted_Tag"] = NONE_TAG
    /\ infile[2] # infile[3]

\* C8 as stated: over any run, failing loads included, pipeline(...) is
\* entered at most once.
C8_AtMostOneLoadAttempt == loadAttempts <= 1

\* C8, amended: the model is loaded successfully at most once and after
\* that no invocation enters pipeline(...) again; a blank text touches
\* neither the cache nor the classifier.  (A load that raised is not cached:
\* the next non-blank invocation attempts it again.)
C8_LoadedOnceThenCached ==
    [][/\ loads' <= 1
       /\ cache => (cache' /\ loadAttempts' = loadAttempts /\ loads' = loads)
       /\ loads' # loads => (~cache /\ cache' /\ loadAttempts' = loadAttempts + 1)
       /\ (pos' = pos + 1 /\ IsBlank(rows[pos + 1][Column])) =>
              UNCHANGED <<cache, loadAttempts, loads, classifierCalls>>]_vars

\* a failed load, a successful one, and a later call served from the cache
C8_Witness ==
    /\ cache
    /\ loadAttempts = 2
    /\ loads = 1
    /\ classifierCalls = 2
    /\ pos = 3

\* C9: a row that process wrote without a classifier result (blank text, or
\* a classification that raised) is never AUTO_FIXED by clean and keeps its
\* (stripped) original category; the row that raised gets NEEDS_REVIEW.
C9_NoClassifierResultNeverAutoFixed ==
    (procPc = "done" /\ Cleaned) =>
        /\ IsBlank(infile[n][Column]) =>
               /\ out[n]["Predicted_Tag"] = NONE_TAG
               /\ out[n]["Confidence_Score"] = <<"1.0">>
               /\ Status # AUTO_FIXED
               /\ Final = RStrip(LStrip(infile[n]["Category"]))
        /\ n \in errorLog =>
               /\ Status = NEEDS_REVIEW
               /\ Final = RStrip(LStrip(infile[n]["Category"]))

\* a blank row whose sentinel prediction disagrees with the category at 1.0
C9_Witness ==
    /\ procPc = "done"
    /\ Cleaned
    /\ IsBlank(infile[n][Column])
    /\ infile[n]["Category"] = <<WS, "ERROR">>
    /\ Status = VERIFIED
    /\ Final = <<"ERROR">>
    /\ 1 \in errorLog
    /\ n = 2

\* C10: a row clean marks AUTO_FIXED is a row audit puts in the danger
\* zone, so on the same rows auto_fixed never exceeds high_conf_disagreements.
C10_AutoFixedWithinDangerZone ==
    /\ BothConsumed =>
           (Status = AUTO_FIXED =>
                /\ danger_rows # <<>>
                /\ danger_rows[Len(danger_rows)] = n)
    /\ stats.total = total => stats.auto_fixed <= high_conf_disagreements
    /\ high_conf_disagreements = Len(danger_rows)

\* two danger-zone rows of which only the last, at 0.86, is auto-fixed (the
\* converse fails for the first)
C10_Witness ==
    /\ BothConsumed
    /\ n = 2
    /\ high_conf_disagreements = 2
    /\ stats.auto_fixed = 1
    /\ Status = AUTO_FIXED
    /\ Confidence(row) = 86

====
